---- MODULE Spec2Model ----
(***************************************************************************)
(* A model of content.js: the element watcher, the wait-for-element        *)
(* poller, the two debouncers, the price filter and the budget controller. *)
(* Each part has its own specification over the shared variables.          *)
(***************************************************************************)
EXTENDS Integers, Sequences, FiniteSets, TLC

\* ---------------------------------------------------------------- bounds
NumNodes == 3
MaxObservers == 2
MaxElapsed == 1000
MaxWait == 2
MaxCalls == 3
MaxArg == 2
NumItems == 2
MaxBudget == 2

\* ------------------------------------------------------------- constants
Body == 0
Detached == -1
Undefined == -1
Null == -2
NaN == -3
NoKey == 0
EmptyUrl == -4
DefaultTimeout == 500
PollInterval == 100
EventKinds == {"init", "added", "removed", "modified"}
\* the event sets a subscription is registered with (content.js uses the
\* second and the third; the others exercise every kind being present/absent)
EventSets ==
  { {"init", "added", "removed", "modified"},
    {"init", "added"},
    {"init", "added", "modified"},
    {"removed"},
    {} }

VARIABLES
  \* element watcher (Utils.elementWatcher) and the tree it watches
  parent,      \* Nodes -> parent node, Body, or Detached
  matches,     \* the nodes that match the selector
  events,      \* the subscription's event set
  wpc,         \* "start" before elementWatcher is called, "watching" after
  observers,   \* Nodes -> number of 'modified' observers attached to the node
  calls,       \* callbacks invoked by the last step: <<node, kind>> -> count
  threw,       \* the last step ended an observer callback by an exception
  lastOp       \* the last tree operation: [op, node, inDoc]

wvars == <<parent, matches, events, wpc, observers, calls, threw, lastOp>>

VARIABLES
  \* Utils.waitForElement: one call, from its start
  timeout,        \* the timeout argument, or Undefined
  elapsed,        \* Date.now() - startTime
  present,        \* document.querySelector(selector) finds an element
  everPresent,    \* it has done so at some time since the start
  intervalOn,     \* the setInterval timer has not been cleared
  promise,        \* "pending", "resolved" or "rejected"
  settledAt,      \* elapsed time at which the promise settled, or Undefined
  settles,        \* number of resolve/reject calls made
  pollsAfter      \* polls of the selector made after the promise settled

tvars == <<timeout, elapsed, present, everPresent, intervalOn, promise,
           settledAt, settles, pollsAfter>>

VARIABLES
  \* the platform's timers and the two debounce wrappers
  timers,         \* pending setTimeout timers: [id, rem, owner, args]
  dbTimeout,      \* Utils.debounce's `timeout`: a timer id, Undefined or Null
  timer,          \* Utils.debounceLeading's `timer`, per wrapper: id or Undefined
  wait,           \* the wait / timeout argument the wrapper was built with
  sinceCall,      \* time since the wrapper was last invoked (capped)
  invocations,    \* the wrapper's invocations so far: [args, gap]
  runs            \* the wrapped function's executions so far: [args, delay]

dvars == <<timers, dbTimeout, timer, wait, sinceCall, invocations, runs>>

VARIABLES
  \* the product list SalTalk.filterByPrice works on
  inTree,         \* Items -> the app-product-item element is in the document
  hasPrice,       \* Items -> it has a .product-price child
  priceText,      \* Items -> the innerText of that child
  display,        \* Items -> elem.style.display
  boxDisplay,     \* Boxes -> the .product-container's style.display
  fLast           \* the last step on the list: [op, maxPrice]

fvars == <<inTree, hasPrice, priceText, display, boxDisplay, fLast>>

VARIABLES
  \* FilterByBudgetComponent, its CheckBoxComponent and what they read
  enabled,        \* this.enabled
  budget,         \* this.budget: a number, Null or Undefined
  ui,             \* this.ui: [made, isChecked, labelText, rendered]
  domControls,    \* the rendered toggle controls in the tree: [id, checked, label]
  href,           \* window.location.href, as the cart key it parses to
  cartOk,         \* SalTalk.Cart.getData() can scrape the cart without throwing
  cartBudget,     \* cart key -> remainingBudget of its entry, Undefined if none
  cLast           \* the last event the controller handled: [ev, leading, threw]

cvars == <<enabled, budget, ui, domControls, href, cartOk, cartBudget, cLast>>

VARIABLES
  \* Utils.urlWatcher (window.location.href is `href` above)
  previousUrl,    \* the watcher's stored URL, EmptyUrl for ""
  urlLog,         \* the callback's invocations so far: [url, prev, stored]
  uLast           \* the watcher's last step: [op, before, prevBefore]

uvars == <<previousUrl, urlLog, uLast>>

vars == <<wvars, tvars, dvars, fvars, cvars, uvars>>

\* what each part leaves alone
notW == <<tvars, dvars, fvars, cvars, uvars>>
notT == <<wvars, dvars, fvars, cvars, uvars>>
notD == <<wvars, tvars, fvars, cvars, uvars>>
notF == <<wvars, tvars, dvars, cvars, uvars>>
notC == <<wvars, tvars, urlLog, uLast>>

Nodes == 1..NumNodes

\* the debounceLeading wrappers: a free-standing one and the controller's two
LeadingWrappers == {"leading", "itemList", "cart"}

\* the app-product-item elements and the .product-container elements: the
\* first container holds items 1 and 2, the second one the others
Items == 1..NumItems
Boxes == {1, 2}
BoxOf(i) == IF i <= 2 THEN 1 ELSE 2

\* the cart keys ("month-date-meal") a URL can parse to; NoKey is a URL
\* without date parameters
UrlKeys == {1, 2}

\* this.ui = null
NoUi == [made |-> FALSE, isChecked |-> FALSE, labelText |-> <<>>,
         rendered |-> Null]

\* ------------------------------------------------------------ tree helpers
RECURSIVE Ancestors(_, _)
\* the inclusive ancestors of n among the nodes (Body excluded)
Ancestors(par, n) ==
  IF n \in Nodes THEN {n} \cup Ancestors(par, par[n]) ELSE {}

RECURSIVE TopOf(_, _)
\* Body when n is connected to the document, Detached otherwise
TopOf(par, n) == IF n \in Nodes THEN TopOf(par, par[n]) ELSE n

InDoc(par, n) == TopOf(par, n) = Body

\* the subtree rooted at n, root included
Subtree(par, n) == {d \in Nodes : n \in Ancestors(par, d)}

\* callbacks are recorded as a bag: <<node, kind>> -> number of invocations
NoCalls == [c \in {} |-> 0]
Count(bag, c) == IF c \in DOMAIN bag THEN bag[c] ELSE 0
Times(c, k) == [x \in (IF k > 0 THEN {c} ELSE {}) |-> k]
Plus(a, b) == [c \in DOMAIN a \cup DOMAIN b |-> Count(a, c) + Count(b, c)]

TotalObservers(obs) ==
  LET RECURSIVE Sum(_)
      Sum(S) == IF S = {} THEN 0
                ELSE LET x == CHOOSE y \in S : TRUE IN obs[x] + Sum(S \ {x})
  IN Sum(Nodes)

\* ------------------------------------------------- Utils.elementWatcher
\* TreeWalker(node, SHOW_ELEMENT) driven by while (walker.nextNode()):
\* currentNode starts at the root and nextNode() moves past it before the
\* first test, so the nodes tested are the root's descendants.
WalkerNodes(par, node) == Subtree(par, node) \ {node}

\* the elements of the walk that match the selector
WalkMatches(par, node) == WalkerNodes(par, node) \cap matches

\* querySelectorAll(selector) under document.body
QuerySelectorAll(par) == {n \in matches : InDoc(par, n)}

\* addModifiedObserver(elem), called k times
AddModifiedObserver(obs, elem, k) == [obs EXCEPT ![elem] = @ + k]

\* the per-node observers notified of a mutation whose target is t:
\* observe(elem, {attributes, characterData, childList, subtree})
ModifiedCalls(par, obs, t) ==
  [c \in {<<a, "modified">> : a \in {x \in Ancestors(par, t) : obs[x] > 0}}
     |-> obs[c[1]]]

\* an added observer that does not consult the event set
AddedCallsUngated(par, node) ==
  Times(<<node, "added">>, Cardinality(WalkMatches(par, node)))

\* the body observer of lines 92-120 on a childList record adding `node`
AddedCalls(par, node) ==
  IF "added" \in events
    THEN Times(<<node, "added">>, Cardinality(WalkMatches(par, node)))
    ELSE NoCalls

AddedObservers(par, obs, node) ==
  IF "modified" \in events
    THEN AddModifiedObserver(obs, node, Cardinality(WalkMatches(par, node)))
    ELSE obs

\* the body observer of lines 124-138 on a childList record: removedNodes is
\* a NodeList, which has no filter method, so the callback ends by a
\* TypeError before any callback(node, "removed")
RemovedThrows == "removed" \in events
RemovedCalls(node) == NoCalls

\* elementWatcher(selector, events, callback): the init pass and registration
Watch ==
  /\ wpc = "start"
  /\ wpc' = "watching"
  /\ LET found == QuerySelectorAll(parent) IN
       /\ calls' = [c \in {<<n, "init">> : n \in (IF "init" \in events
                                                    THEN found ELSE {})} |-> 1]
       /\ observers' = [n \in Nodes |->
                          IF n \in found /\ "modified" \in events
                            THEN observers[n] + 1 ELSE observers[n]]
       /\ TotalObservers(observers') <= MaxObservers
  /\ threw' = FALSE
  /\ lastOp' = [op |-> "watch", node |-> Body, inDoc |-> TRUE]
  /\ UNCHANGED <<parent, matches, events>>
  /\ UNCHANGED notW

\* the page inserts the detached subtree rooted at n under p
Insert(n, p) ==
  /\ parent[n] = Detached
  /\ p < n
  /\ p = Body \/ p \in Nodes
  /\ parent' = [parent EXCEPT ![n] = p]
  /\ LET notify == wpc = "watching" /\ InDoc(parent', n) IN
       /\ calls' = Plus(ModifiedCalls(parent, observers, p),
                        IF notify THEN AddedCalls(parent', n) ELSE NoCalls)
       /\ observers' = IF notify THEN AddedObservers(parent', observers, n)
                                 ELSE observers
       /\ threw' = (notify /\ RemovedThrows)
       /\ lastOp' = [op |-> "insert", node |-> n, inDoc |-> notify]
  /\ TotalObservers(observers') <= MaxObservers
  /\ UNCHANGED <<matches, events, wpc>>
  /\ UNCHANGED notW

\* the page removes the subtree rooted at n from its parent
Remove(n) ==
  /\ parent[n] # Detached
  /\ parent' = [parent EXCEPT ![n] = Detached]
  /\ LET notify == wpc = "watching" /\ InDoc(parent, n) IN
       /\ calls' = Plus(ModifiedCalls(parent, observers, parent[n]),
                        IF notify /\ "removed" \in events
                          THEN RemovedCalls(n) ELSE NoCalls)
       /\ threw' = (notify /\ RemovedThrows)
       /\ lastOp' = [op |-> "remove", node |-> n, inDoc |-> notify]
  /\ UNCHANGED <<matches, events, wpc, observers>>
  /\ UNCHANGED notW

\* the page changes an attribute (or the text) of n
SetAttribute(n) ==
  /\ calls' = ModifiedCalls(parent, observers, n)
  /\ threw' = FALSE
  /\ lastOp' = [op |-> "attr", node |-> n, inDoc |-> InDoc(parent, n)]
  /\ UNCHANGED <<parent, matches, events, wpc, observers>>
  /\ UNCHANGED notW

\* the tree before the page has built anything, no watcher registered
WTreeInit ==
  /\ parent = [n \in Nodes |-> Detached]
  /\ wpc = "start"
  /\ observers = [n \in Nodes |-> 0]
  /\ calls = NoCalls
  /\ threw = FALSE
  /\ lastOp = [op |-> "none", node |-> Body, inDoc |-> FALSE]

\* Utils.waitForElement before it is called
TIdle ==
  /\ timeout = Undefined
  /\ elapsed = 0
  /\ present = FALSE
  /\ everPresent = FALSE
  /\ intervalOn = FALSE
  /\ promise = "pending"
  /\ settledAt = Undefined
  /\ settles = 0
  /\ pollsAfter = 0

WIdle == WTreeInit /\ matches = {} /\ events = {}

\* no timer pending, no debounce wrapper invoked yet
DIdle ==
  /\ timers = {}
  /\ dbTimeout = Undefined
  /\ timer = [w \in LeadingWrappers |-> Undefined]
  /\ wait = 1
  /\ sinceCall = 0
  /\ invocations = <<>>
  /\ runs = <<>>

\* an empty product list
FIdle ==
  /\ inTree = [i \in Items |-> FALSE]
  /\ hasPrice = [i \in Items |-> FALSE]
  /\ priceText = [i \in Items |-> <<>>]
  /\ display = [i \in Items |-> ""]
  /\ boxDisplay = [c \in Boxes |-> ""]
  /\ fLast = [op |-> "none", maxPrice |-> Null]

\* Utils.urlWatcher before any mutation notification
UIdle ==
  /\ previousUrl = EmptyUrl
  /\ urlLog = <<>>
  /\ uLast = [op |-> "none", before |-> 0, prevBefore |-> EmptyUrl]

\* no controller constructed
CIdle ==
  /\ enabled = FALSE
  /\ budget = Null
  /\ ui = NoUi
  /\ domControls = {}
  /\ href = NoKey
  /\ cartOk = TRUE
  /\ cartBudget = [k \in UrlKeys |-> Undefined]
  /\ cLast = [ev |-> "none", leading |-> FALSE, threw |-> FALSE]

WInit ==
  /\ WTreeInit
  /\ matches \in SUBSET Nodes
  /\ events \in EventSets
  /\ TIdle
  /\ DIdle
  /\ FIdle
  /\ CIdle
  /\ UIdle

WNext ==
  \/ Watch
  \/ \E n \in Nodes : \E p \in {Body} \cup Nodes : Insert(n, p)
  \/ \E n \in Nodes : Remove(n)
  \/ \E n \in Nodes : SetAttribute(n)

SpecWatcher == WInit /\ [][WNext]_vars

\* ------------------------------------------------ element watcher: claims

\* C1: after a subtree rooted at n is inserted into the watched tree, the
\* number of callback(n, "added") invocations equals the number of elements
\* of the subtree, root included, that match the selector.
C1_AddedOncePerMatchingElement ==
  (lastOp.op = "insert" /\ lastOp.inDoc /\ "added" \in events) =>
    Count(calls, <<lastOp.node, "added">>) =
      Cardinality(Subtree(parent, lastOp.node) \cap matches)

\* C2: with "removed" in the event set, the removal of a node that matches
\* the selector invokes callback(node, "removed") exactly once.
C2_RemovedOncePerMatchingRemoval ==
  (lastOp.op = "remove" /\ lastOp.inDoc /\ "removed" \in events
     /\ lastOp.node \in matches) =>
    Count(calls, <<lastOp.node, "removed">>) = 1

\* C3 (I2): every node carries at most one 'modified' observer of the
\* subscription, so one change yields at most one 'modified' callback per node.
C3_AtMostOneModifiedObserver ==
  \A n \in Nodes : observers[n] <= 1 /\ Count(calls, <<n, "modified">>) <= 1

\* the nodes whose change lies inside a node matching the selector
InsideMatch(par) == UNION {Subtree(par, m) : m \in matches}

\* C15: callback(node, "modified") is invoked only with a node that matches
\* the selector, and a change of an attribute of a node outside every
\* matching node invokes no callback(_, "modified")
C15_ModifiedOnlyForTracked ==
  /\ \A c \in DOMAIN calls : c[2] = "modified" => c[1] \in matches
  /\ (lastOp.op = "attr" /\ lastOp.node \notin InsideMatch(parent)) =>
       \A c \in DOMAIN calls : c[2] # "modified"

\* C17: the callback is never invoked with an event kind that is not in the
\* subscription's event set
C17_KindsGated == \A c \in DOMAIN calls : c[2] \in events

\* a subtree holding a matching element was inserted under a subscription
\* without "added", and nothing was called
C17_Witness ==
  /\ lastOp.op = "insert"
  /\ lastOp.inDoc
  /\ "added" \notin events
  /\ WalkMatches(parent, lastOp.node) # {}
  /\ calls = NoCalls

\* ------------------------------------------------ Utils.waitForElement
TimeoutArgs == {Undefined, 0, 100, 250, 500}

\* the setInterval callback (lines 23-34), run at time `now`
PollOutcome(now) ==
  IF present THEN "resolve"
  ELSE IF timeout = Undefined THEN "keep"
  ELSE IF now > timeout THEN "reject"
  ELSE "keep"

\* a callback that leaves the interval running when it rejects
IntervalKeptOnReject(out) == out # "resolve"

\* whether the interval is still live after the callback: clearInterval(timer)
\* precedes both resolve (line 26) and reject (line 31)
IntervalAfter(out) == out = "keep"

\* PollInterval passes; the interval callback runs if the timer is live
Poll ==
  /\ elapsed + PollInterval <= MaxElapsed
  /\ elapsed' = elapsed + PollInterval
  /\ IF intervalOn
       THEN LET out == PollOutcome(elapsed') IN
            /\ intervalOn' = IntervalAfter(out)
            /\ pollsAfter' = IF promise # "pending" THEN pollsAfter + 1
                                                    ELSE pollsAfter
            /\ settles' = IF out = "keep" THEN settles ELSE settles + 1
            /\ IF out # "keep" /\ promise = "pending"
                 THEN /\ promise' = (IF out = "resolve" THEN "resolved"
                                                       ELSE "rejected")
                      /\ settledAt' = elapsed'
                 ELSE UNCHANGED <<promise, settledAt>>
       ELSE UNCHANGED <<intervalOn, pollsAfter, settles, promise, settledAt>>
  /\ UNCHANGED <<timeout, present, everPresent>>
  /\ UNCHANGED notT

\* the page adds or removes the element the selector finds
SetPresent(b) ==
  /\ present # b
  /\ present' = b
  /\ everPresent' = (everPresent \/ b)
  /\ UNCHANGED <<timeout, elapsed, intervalOn, promise, settledAt, settles,
                 pollsAfter>>
  /\ UNCHANGED notT

\* the state right after waitForElement(selector, timeout) returned its promise
TInit ==
  /\ timeout \in TimeoutArgs
  /\ elapsed = 0
  /\ present \in BOOLEAN
  /\ everPresent = present
  /\ intervalOn = TRUE
  /\ promise = "pending"
  /\ settledAt = Undefined
  /\ settles = 0
  /\ pollsAfter = 0
  /\ WIdle
  /\ DIdle
  /\ FIdle
  /\ CIdle
  /\ UIdle

TNext ==
  \/ Poll
  \/ \E b \in BOOLEAN : SetPresent(b)

SpecWait == TInit /\ [][TNext]_vars

\* C5: with timeout 500 and an element that never appears, the promise is
\* rejected at an elapsed time t with 500 <= t < 600; with no timeout it
\* stays pending for as long as the element is absent.
C5_TimeoutWindow ==
  /\ (timeout = 500 /\ ~everPresent) =>
       /\ promise = "rejected" => (500 <= settledAt /\ settledAt < 600)
       /\ elapsed >= 600 => promise = "rejected"
  /\ (timeout = Undefined /\ ~everPresent) => promise = "pending"

\* C16: the promise settles at most once, resolved at the first poll that
\* finds the element and rejected only at a poll past the timeout; the
\* interval is live exactly while the promise is pending, and the callback
\* never runs once the promise is settled
C16_SettlesOnceTimerCancelled ==
  /\ [](/\ settles <= 1
        /\ pollsAfter = 0
        /\ (promise # "pending") <=> (settles = 1)
        /\ (promise # "pending") <=> ~intervalOn
        /\ promise = "resolved" => everPresent
        /\ promise = "rejected" =>
             (timeout # Undefined /\ settledAt > timeout))
  /\ [][/\ (elapsed' # elapsed /\ promise = "pending" /\ present)
             => (promise' = "resolved" /\ settledAt' = elapsed')
        /\ promise # "pending" => UNCHANGED <<promise, settledAt>>]_vars

\* time went on after a rejection, the element being there by then, and
\* the promise stayed rejected with the interval cancelled
C16_Witness ==
  /\ promise = "rejected"
  /\ elapsed >= settledAt + 2 * PollInterval
  /\ present
  /\ ~intervalOn

\* ------------------------------------------------------ platform timers
\* timer ids are positive; an id is reused only once its timer is gone, and
\* neither wrapper keeps the id of a timer that has fired or been cleared
FreshId(ts) ==
  CHOOSE i \in 1..(Cardinality(ts) + 1) :
    /\ \A t \in ts : t.id # i
    /\ \A j \in 1..(i - 1) : \E t \in ts : t.id = j

\* setTimeout(callback, delay), returning `id`
SetTimeout(ts, id, owner, delay, args) ==
  ts \cup {[id |-> id, rem |-> delay, owner |-> owner, args |-> args]}

\* clearTimeout(id); an id that names no timer (undefined, null) is ignored
ClearTimeout(ts, id) == {t \in ts : t.id # id}

Due(ts) == {t \in ts : t.rem <= 0}

ElapseBy(ts, d) == {[t EXCEPT !.rem = @ - d] : t \in ts}
Elapse(ts) == ElapseBy(ts, 1)

SinceCap == MaxWait + 1
Later(n) == IF n < SinceCap THEN n + 1 ELSE n

\* ---------------------------------------------------- Utils.debounce
\* a wrapper that never cancels the pending timer
DebounceTimersNoClear(ts, tid, id, w, args) ==
  SetTimeout(ts, id, "debounce", w, args)

\* lines 152-153: clearTimeout(timeout); timeout = setTimeout(later, wait)
DebounceTimers(ts, tid, id, w, args) ==
  SetTimeout(ClearTimeout(ts, tid), id, "debounce", w, args)

\* an invocation of the wrapper returned by debounce(func, wait)
DebounceCall(args) ==
  /\ Due(timers) = {}
  /\ Len(invocations) < MaxCalls
  /\ dbTimeout' = FreshId(timers)
  /\ timers' = DebounceTimers(timers, dbTimeout, FreshId(timers), wait, args)
  /\ invocations' = Append(invocations, [args |-> args, gap |-> sinceCall])
  /\ sinceCall' = 0
  /\ UNCHANGED <<timer, wait, runs>>
  /\ UNCHANGED notD

\* the timer fires: later() of lines 148-151
DebounceLater ==
  \E t \in Due(timers) :
    /\ t.owner = "debounce"
    /\ timers' = timers \ {t}
    /\ dbTimeout' = Null
    /\ runs' = Append(runs, [args |-> t.args, delay |-> sinceCall])
    /\ UNCHANGED <<timer, wait, sinceCall, invocations>>
    /\ UNCHANGED notD

\* one time unit passes; a timer that is due runs before time moves on
Tick ==
  /\ Due(timers) = {}
  /\ timers' = Elapse(timers)
  /\ sinceCall' = Later(sinceCall)
  /\ UNCHANGED <<dbTimeout, timer, wait, invocations, runs>>
  /\ UNCHANGED notD

DInit ==
  /\ timers = {}
  /\ dbTimeout = Undefined
  /\ timer = [w \in LeadingWrappers |-> Undefined]
  /\ wait \in 1..MaxWait
  /\ sinceCall = SinceCap
  /\ invocations = <<>>
  /\ runs = <<>>
  /\ WIdle
  /\ TIdle
  /\ FIdle
  /\ CIdle
  /\ UIdle

DNext ==
  \/ \E a \in 1..MaxArg : DebounceCall(a)
  \/ DebounceLater
  \/ Tick

SpecDebounce == DInit /\ [][DNext]_vars

\* the invocations that end a burst: the next one comes no sooner than `wait`
\* later, or none has come and `wait` has passed and its timer has run
EndsBurst(i) ==
  IF i < Len(invocations) THEN invocations[i + 1].gap >= wait
  ELSE sinceCall >= wait /\ timers = {}

RECURSIVE BurstEnds(_)
BurstEnds(i) ==
  IF i > Len(invocations) THEN <<>>
  ELSE (IF EndsBurst(i)
          THEN <<[args |-> invocations[i].args, delay |-> wait]>> ELSE <<>>)
       \o BurstEnds(i + 1)

\* C9: the wrapped function has run exactly once per burst, with the
\* arguments of the burst's last invocation, exactly `wait` after it, and
\* at most one timer is pending.
C9_TrailingOncePerBurst ==
  /\ runs = BurstEnds(1)
  /\ Cardinality(timers) <= 1

\* a burst of two or more invocations has been followed by its one execution
C9_Witness ==
  /\ Len(invocations) >= 2
  /\ invocations[2].gap < wait
  /\ Len(runs) = 1
  /\ runs[1].args = invocations[Len(invocations)].args
  /\ runs[1].args # invocations[1].args

\* ------------------------------------------------ Utils.debounceLeading
\* line 163: if (!timer)
LeadingRuns(tm) == tm = Undefined

\* a wrapper that starts the window once and does not restart it
LeadingTimersNoRestart(ts, tm, id, w, delay) ==
  IF tm = Undefined THEN SetTimeout(ts, id, w, delay, 0) ELSE ts

\* lines 166-169: clearTimeout(timer); timer = setTimeout(..., timeout)
LeadingTimers(ts, tm, id, w, delay) ==
  SetTimeout(ClearTimeout(ts, tm), id, w, delay, 0)

\* the id `timer` holds after the invocation
LeadingTimerId(ts, tm, id, w, delay) ==
  IF \E t \in LeadingTimers(ts, tm, id, w, delay) : t.id = id THEN id ELSE tm

\* an invocation of the wrapper returned by debounceLeading(func, timeout)
LeadingCall(args) ==
  /\ Due(timers) = {}
  /\ Len(invocations) < MaxCalls
  /\ runs' = IF LeadingRuns(timer["leading"])
               THEN Append(runs, [args |-> args, delay |-> 0]) ELSE runs
  /\ timers' = LeadingTimers(timers, timer["leading"], FreshId(timers),
                             "leading", wait)
  /\ timer' = [timer EXCEPT !["leading"] =
                 LeadingTimerId(timers, @, FreshId(timers), "leading", wait)]
  /\ invocations' = Append(invocations, [args |-> args, gap |-> sinceCall])
  /\ sinceCall' = 0
  /\ UNCHANGED <<dbTimeout, wait>>
  /\ UNCHANGED notD

\* the cooldown timer fires (line 168): timer = undefined
LeadingExpire ==
  \E t \in Due(timers) :
    /\ t.owner \in LeadingWrappers
    /\ timers' = timers \ {t}
    /\ timer' = [timer EXCEPT ![t.owner] = Undefined]
    /\ UNCHANGED <<dbTimeout, wait, sinceCall, invocations, runs>>
    /\ UNCHANGED notD

LNext ==
  \/ \E a \in 1..MaxArg : LeadingCall(a)
  \/ LeadingExpire
  \/ Tick

SpecLeading == DInit /\ [][LNext]_vars

RECURSIVE LeadingEdges(_)
\* the invocations that come a full `wait` or more after the previous one
\* (the first one comes in an idle period)
LeadingEdges(i) ==
  IF i > Len(invocations) THEN <<>>
  ELSE (IF invocations[i].gap >= wait
          THEN <<[args |-> invocations[i].args, delay |-> 0]>> ELSE <<>>)
       \o LeadingEdges(i + 1)

PriceTexts ==
  { <<"$", "1">>, <<"$", "3">>, <<"2", "x">>, <<"x">>, <<"$", "$", "1">> }

Digits == [c \in {"0", "1", "2", "3"} |->
             CASE c = "0" -> 0 [] c = "1" -> 1 [] c = "2" -> 2 [] c = "3" -> 3]

\* String.prototype.replace("$", ""): the first "$" is removed
RECURSIVE ReplaceDollar(_)
ReplaceDollar(t) ==
  IF t = <<>> THEN <<>>
  ELSE IF Head(t) = "$" THEN Tail(t)
  ELSE <<Head(t)>> \o ReplaceDollar(Tail(t))

RECURSIVE LeadingDigits(_)
LeadingDigits(t) ==
  IF t = <<>> \/ Head(t) \notin DOMAIN Digits THEN <<>>
  ELSE <<Head(t)>> \o LeadingDigits(Tail(t))

RECURSIVE DigitsValue(_)
DigitsValue(d) ==
  IF d = <<>> THEN 0
  ELSE 10 * DigitsValue(SubSeq(d, 1, Len(d) - 1)) + Digits[d[Len(d)]]

\* parseFloat: the value of the longest numeric prefix, NaN when there is none
ParseFloat(t) ==
  IF LeadingDigits(t) = <<>> THEN NaN ELSE DigitsValue(LeadingDigits(t))

\* a <= b on JS numbers: false when either is NaN
Leq(a, b) == a # NaN /\ b # NaN /\ a <= b

\* lines 347-358, the display the pass leaves on item i
ItemDisplay(i, maxPrice) ==
  IF ~inTree[i] THEN display[i]
  ELSE IF ~hasPrice[i] THEN display[i]
  ELSE IF maxPrice = Null \/ maxPrice = Undefined
            \/ Leq(ParseFloat(ReplaceDollar(priceText[i])), maxPrice)
    THEN "inline-block"
  ELSE "none"

FilterItems(maxPrice) == [i \in Items |-> ItemDisplay(i, maxPrice)]

\* elem.querySelectorAll("app-product-item") of container c
Members(c) == {i \in Items : inTree[i] /\ BoxOf(i) = c}

\* a pass that decides the containers from the items' display before the pass
FilterBoxesStale(disp) ==
  [c \in Boxes |->
     IF Cardinality({i \in Members(c) : display[i] # "none"}) = 0
       THEN "none" ELSE "block"]

\* lines 362-371, run on the item displays `disp` the first loop left
FilterBoxes(disp) ==
  [c \in Boxes |->
     IF Cardinality({i \in Members(c) : disp[i] # "none"}) = 0
       THEN "none" ELSE "block"]

MaxPrices == {Null, Undefined, NaN} \cup 0..MaxBudget

\* SalTalk.filterByPrice(maxPrice)
FilterByPrice(maxPrice) ==
  /\ display' = FilterItems(maxPrice)
  /\ boxDisplay' = FilterBoxes(display')
  /\ fLast' = [op |-> "filter", maxPrice |-> maxPrice]
  /\ UNCHANGED <<inTree, hasPrice, priceText>>

Filter(maxPrice) ==
  /\ FilterByPrice(maxPrice)
  /\ UNCHANGED notF

\* the page renders item i with a price field
AddItem(i, t) ==
  /\ ~inTree[i]
  /\ inTree' = [inTree EXCEPT ![i] = TRUE]
  /\ hasPrice' = [hasPrice EXCEPT ![i] = TRUE]
  /\ priceText' = [priceText EXCEPT ![i] = t]
  /\ fLast' = [op |-> "edit", maxPrice |-> fLast.maxPrice]
  /\ UNCHANGED <<display, boxDisplay>>
  /\ UNCHANGED notF

\* the page removes item i
RemoveItem(i) ==
  /\ inTree[i]
  /\ inTree' = [inTree EXCEPT ![i] = FALSE]
  /\ hasPrice' = [hasPrice EXCEPT ![i] = FALSE]
  /\ priceText' = [priceText EXCEPT ![i] = <<>>]
  /\ display' = [display EXCEPT ![i] = ""]
  /\ fLast' = [op |-> "edit", maxPrice |-> fLast.maxPrice]
  /\ UNCHANGED boxDisplay
  /\ UNCHANGED notF

\* the page rewrites the price field of item i
SetPrice(i, t) ==
  /\ inTree[i]
  /\ ~hasPrice[i] \/ priceText[i] # t
  /\ hasPrice' = [hasPrice EXCEPT ![i] = TRUE]
  /\ priceText' = [priceText EXCEPT ![i] = t]
  /\ fLast' = [op |-> "edit", maxPrice |-> fLast.maxPrice]
  /\ UNCHANGED <<inTree, display, boxDisplay>>
  /\ UNCHANGED notF

\* the page removes the price field of item i
DropPrice(i) ==
  /\ inTree[i]
  /\ hasPrice[i]
  /\ hasPrice' = [hasPrice EXCEPT ![i] = FALSE]
  /\ priceText' = [priceText EXCEPT ![i] = <<>>]
  /\ fLast' = [op |-> "edit", maxPrice |-> fLast.maxPrice]
  /\ UNCHANGED <<inTree, display, boxDisplay>>
  /\ UNCHANGED notF

FInit ==
  /\ FIdle
  /\ WIdle
  /\ TIdle
  /\ DIdle
  /\ CIdle
  /\ UIdle

FNext ==
  \/ \E m \in MaxPrices : Filter(m)
  \/ \E i \in Items : \E t \in PriceTexts : AddItem(i, t)
  \/ \E i \in Items : RemoveItem(i)
  \/ \E i \in Items : \E t \in PriceTexts : SetPrice(i, t)
  \/ \E i \in Items : DropPrice(i)

SpecFilter == FInit /\ [][FNext]_vars

Visible(i) == display[i] # "none"
Present(m) == m # Null /\ m # Undefined

\* C7: after a filter pass, with maxPrice m present an item with price p is
\* visible iff p <= m, and with maxPrice absent every item is visible,
\* whatever the earlier passes left on it.
C7_ThresholdAfterPass ==
  fLast.op = "filter" =>
    \A i \in Items : inTree[i] =>
      IF Present(fLast.maxPrice)
        THEN hasPrice[i] =>
               (Visible(i) <=>
                  Leq(ParseFloat(ReplaceDollar(priceText[i])), fLast.maxPrice))
        ELSE Visible(i)

\* the price text of item i does not parse as a number
Unparsable(i) == ParseFloat(ReplaceDollar(priceText[i])) = NaN

\* C14: a filter pass leaves the display of an item without a price field,
\* and of an item whose price text does not parse as a number, as it was
\* before the pass (the other items and the containers being decided by C7
\* and C8)
C14_BadItemsSkipped ==
  [][fLast'.op = "filter" =>
       \A i \in Items :
         (inTree[i] /\ (~hasPrice[i] \/ Unparsable(i)))
           => display'[i] = display[i]]_vars

\* C8 (I4): after a filter pass every container is visible iff one of its
\* current member items is visible after that pass; an empty container is hidden.
C8_ContainerCascade ==
  fLast.op = "filter" =>
    \A c \in Boxes :
      /\ boxDisplay[c] \in {"none", "block"}
      /\ (boxDisplay[c] # "none") <=> (\E i \in Members(c) : Visible(i))

\* a pass left one container visible with a hidden member and one hidden
C8_Witness ==
  /\ fLast.op = "filter"
  /\ boxDisplay[1] = "block"
  /\ \E i \in Members(1) : ~Visible(i)
  /\ boxDisplay[2] = "none"

\* ------------------------------------------- FilterByBudgetComponent
DigitChars == <<"0", "1", "2", "3", "4", "5", "6", "7", "8", "9">>

RECURSIVE IntText(_)
\* the decimal digits of a natural number
IntText(v) ==
  IF v < 10 THEN <<DigitChars[v + 1]>>
  ELSE IntText(v \div 10) \o <<DigitChars[(v % 10) + 1]>>

\* Utils.formatCurrencyValue on a whole number of dollars
FormatCurrencyValue(v) ==
  IF v = NaN THEN <<"$", "N", "a", "N">>
  ELSE <<"$">> \o IntText(v) \o <<".", "0", "0">>

\* #labelText() for this.budget = b
LabelText(b) ==
  <<"Filter by budget">> \o
    (IF b # Null /\ b # Undefined
       THEN <<" (", FormatCurrencyValue(b), " available)">> ELSE <<>>)

\* what SalTalk.Cart.getData() and SalTalk.parseUrl give #applyFilter
CartValues == {Undefined} \cup 1..MaxBudget
NoCart == [k \in UrlKeys |-> Undefined]
\* the cart regions the page can show: well-formed ones, and a malformed one
\* (an entry without its date or budget element) that getData throws on
Carts == {[ok |-> TRUE, cb |-> cb] : cb \in [UrlKeys -> CartValues]}
           \cup {[ok |-> FALSE, cb |-> NoCart]}
GetDataThrows(ok) == ~ok

\* line 302: this.enabled ? cartData[id]?.remainingBudget : null
BudgetLookup(en, cb, h) ==
  IF en THEN (IF h \in UrlKeys THEN cb[h] ELSE Undefined) ELSE Null

\* the id of the next element #render() creates: the least one no element of
\* the tree has (the component drops its old element's id in the same step)
FreshControlId(dom) ==
  CHOOSE i \in 1..(Cardinality(dom) + 1) :
    /\ \A c \in dom : c.id # i
    /\ \A j \in 1..(i - 1) : \E c \in dom : c.id = j

\* a remove() that leaves the rendered element in the tree
UiRemoveNothing(dom, u) == dom

\* CheckBoxComponent.remove() through this.ui?.remove()
UiRemove(dom, u) ==
  IF u.made THEN {c \in dom : c.id # u.rendered} ELSE dom

\* new CheckBoxComponent(parent, defaultState, labelText, cb), rendering `id`
CheckBoxUi(id, defaultState, text) ==
  [made |-> TRUE, isChecked |-> defaultState, labelText |-> text,
   rendered |-> id]

\* #render(): the element built from the component's state
Render(id, isChecked, text) ==
  [id |-> id, checked |-> isChecked, label |-> text]

\* setLabel(text) through this.ui?.setLabel: the component afterwards
SetLabelUi(u, id, text) ==
  IF u.made THEN [u EXCEPT !.labelText = text, !.rendered = id] ELSE u

\* setLabel(text): #display() replaces the rendered element where it stands;
\* replaceWith on an element that is no longer in the tree inserts nothing
SetLabelDom(dom, u, id, text) ==
  IF u.made /\ (\E c \in dom : c.id = u.rendered)
    THEN {c \in dom : c.id # u.rendered} \cup {Render(id, u.isChecked, text)}
    ELSE dom

NoFilter == fLast' = [op |-> "skip", maxPrice |-> Null]
              /\ UNCHANGED <<inTree, hasPrice, priceText, display, boxDisplay>>

dRest == <<dbTimeout, wait, sinceCall, invocations, runs>>

\* #applyFilter() when getData does not throw, entered with this.enabled = en,
\* this.ui = u, the tree's controls dom and the cart cb
ApplyFilter(en, u, dom, cb) ==
  /\ budget' = BudgetLookup(en, cb, href)
  /\ ui' = SetLabelUi(u, FreshControlId(UiRemove(dom, u)),
                      LabelText(budget'))
  /\ domControls' = SetLabelDom(dom, u, FreshControlId(UiRemove(dom, u)),
                                LabelText(budget'))
  /\ FilterByPrice(budget')

\* the menu watcher's callback (lines 251-262), on "init" or "added"
MenuEvent ==
  /\ LET dom1 == UiRemove(domControls, ui)
         id == FreshControlId(dom1) IN
       /\ ui' = CheckBoxUi(id, enabled, LabelText(budget))
       /\ domControls' = dom1 \cup {Render(id, enabled, LabelText(budget))}
  /\ cLast' = [ev |-> "menu", leading |-> TRUE, threw |-> FALSE]
  /\ NoFilter
  /\ UNCHANGED <<enabled, budget, href, cartOk, cartBudget, timers, timer>>
  /\ UNCHANGED <<dRest, notC, previousUrl>>

\* the item-list watcher's callback (line 270): the leading-debounce wrapper
\* of a function that evaluates this.#applyFilter without calling it
ItemListEvent ==
  /\ Due(timers) = {}
  /\ timers' = LeadingTimers(timers, timer["itemList"], FreshId(timers),
                             "itemList", DefaultTimeout)
  /\ timer' = [timer EXCEPT !["itemList"] =
                 LeadingTimerId(timers, @, FreshId(timers), "itemList",
                                DefaultTimeout)]
  /\ cLast' = [ev |-> "itemList", leading |-> LeadingRuns(timer["itemList"]),
               threw |-> FALSE]
  /\ NoFilter
  /\ UNCHANGED <<enabled, budget, ui, domControls, href, cartOk, cartBudget>>
  /\ UNCHANGED <<dRest, notC, previousUrl>>

\* the page changes the cart region to (ok, cb) and the cart watcher's
\* callback (lines 277-280) runs: the leading-debounce wrapper of #applyFilter
CartEvent(ok, cb) ==
  /\ Due(timers) = {}
  /\ cartOk' = ok
  /\ cartBudget' = cb
  /\ LET lead == LeadingRuns(timer["cart"]) IN
       /\ cLast' = [ev |-> "cart", leading |-> lead,
                    threw |-> (lead /\ GetDataThrows(ok))]
       /\ IF lead /\ GetDataThrows(ok)
            THEN \* func.apply throws: lines 166-169 are not reached
                 /\ NoFilter
                 /\ UNCHANGED <<budget, ui, domControls, timers, timer>>
            ELSE /\ IF lead THEN ApplyFilter(enabled, ui, domControls, cb)
                            ELSE NoFilter /\ UNCHANGED <<budget, ui, domControls>>
                 /\ timers' = LeadingTimers(timers, timer["cart"],
                                            FreshId(timers), "cart",
                                            DefaultTimeout)
                 /\ timer' = [timer EXCEPT !["cart"] =
                                LeadingTimerId(timers, @, FreshId(timers),
                                               "cart", DefaultTimeout)]
  /\ UNCHANGED <<enabled, href>>
  /\ UNCHANGED <<dRest, notC, previousUrl>>

\* the user clicks the rendered checkbox: #checkboxChanged, then the
\* controller's changedCallback (lines 257-260)
Toggle ==
  /\ ui.made
  /\ \E c \in domControls :
       /\ c.id = ui.rendered
       /\ LET chk == ~c.checked
              dom1 == (domControls \ {c}) \cup {[c EXCEPT !.checked = chk]}
              u1 == [ui EXCEPT !.isChecked = chk] IN
            /\ enabled' = chk
            /\ cLast' = [ev |-> "toggle", leading |-> TRUE,
                         threw |-> GetDataThrows(cartOk)]
            /\ IF GetDataThrows(cartOk)
                 THEN /\ ui' = u1
                      /\ domControls' = dom1
                      /\ NoFilter
                      /\ UNCHANGED budget
                 ELSE ApplyFilter(chk, u1, dom1, cartBudget)
  /\ UNCHANGED <<href, cartOk, cartBudget, timers, timer>>
  /\ UNCHANGED <<dRest, notC, previousUrl>>

\* ------------------------------------------------------ Utils.urlWatcher
\* the locations the page can be at; the location is never the empty string
Urls == UrlKeys \cup {NoKey}

\* a watcher that reports every notification
UrlChangedAlways(loc, prev) == TRUE

\* window.location.href !== previousUrl
UrlChanged(loc, prev) == loc # prev

\* previousUrl after the observer's callback ran on one notification
UrlStored(loc, prev) == IF UrlChanged(loc, prev) THEN loc ELSE prev

\* the callback's invocations on one notification; previousUrl is assigned
\* before the callback is called, so the callback sees it equal to loc
UrlCallbacks(loc, prev) ==
  IF UrlChanged(loc, prev)
    THEN <<[url |-> loc, prev |-> prev, stored |-> loc]>>
    ELSE <<>>

\* the page navigates and the URL watcher, notified of the page's mutations,
\* reports the change (lines 48-51); the controller's callback (line 245)
\* evaluates this.#applyFilter without calling it
Navigate(h) ==
  /\ h # href
  /\ href' = h
  /\ UrlChanged(h, previousUrl)
  /\ previousUrl' = UrlStored(h, previousUrl)
  /\ cLast' = [ev |-> "nav", leading |-> TRUE, threw |-> FALSE]
  /\ NoFilter
  /\ UNCHANGED <<enabled, budget, ui, domControls, cartOk, cartBudget,
                 timers, timer>>
  /\ UNCHANGED <<dRest, notC>>

\* the page re-renders the menu region, dropping what was in it
WipeMenu ==
  /\ domControls # {}
  /\ domControls' = {}
  /\ cLast' = [ev |-> "wipe", leading |-> FALSE, threw |-> FALSE]
  /\ NoFilter
  /\ UNCHANGED <<enabled, budget, ui, href, cartOk, cartBudget, timers, timer>>
  /\ UNCHANGED <<dRest, notC, previousUrl>>

\* half a cooldown window passes
CtrlStep == DefaultTimeout \div 2
CTick ==
  /\ timers # {}
  /\ Due(timers) = {}
  /\ timers' = ElapseBy(timers, CtrlStep)
  /\ cLast' = [ev |-> "none", leading |-> FALSE, threw |-> FALSE]
  /\ NoFilter
  /\ UNCHANGED <<enabled, budget, ui, domControls, href, cartOk, cartBudget,
                 timer>>
  /\ UNCHANGED <<dRest, notC, previousUrl>>

\* a cooldown timer of one of the controller's wrappers fires (line 168)
CooldownExpire ==
  \E t \in Due(timers) :
    /\ t.owner \in LeadingWrappers
    /\ timers' = timers \ {t}
    /\ timer' = [timer EXCEPT ![t.owner] = Undefined]
    /\ cLast' = [ev |-> "none", leading |-> FALSE, threw |-> FALSE]
    /\ NoFilter
    /\ UNCHANGED <<enabled, budget, ui, domControls, href, cartOk, cartBudget>>
    /\ UNCHANGED <<dRest, notC, previousUrl>>

\* the prices of the items on the controller's page
InitialPrice(i) == IF i % 2 = 1 THEN <<"$", "1">> ELSE <<"$", "3">>

\* the state the constructor leaves (lines 237-240), on a page with a product
\* list and an empty cart
CInit ==
  /\ enabled \in BOOLEAN
  /\ budget = Null
  /\ ui = NoUi
  /\ domControls = {}
  /\ href \in UrlKeys \cup {NoKey}
  /\ cartOk = TRUE
  /\ cartBudget = [k \in UrlKeys |-> Undefined]
  /\ cLast = [ev |-> "none", leading |-> FALSE, threw |-> FALSE]
  /\ inTree = [i \in Items |-> TRUE]
  /\ hasPrice = [i \in Items |-> TRUE]
  /\ priceText = [i \in Items |-> InitialPrice(i)]
  /\ display = [i \in Items |-> ""]
  /\ boxDisplay = [c \in Boxes |-> ""]
  /\ fLast = [op |-> "none", maxPrice |-> Null]
  /\ DIdle
  /\ WIdle
  /\ TIdle
  /\ UIdle

CNext ==
  \/ MenuEvent
  \/ ItemListEvent
  \/ \E c \in Carts : CartEvent(c.ok, c.cb)
  \/ Toggle
  \/ \E h \in UrlKeys \cup {NoKey} : Navigate(h)
  \/ WipeMenu
  \/ CooldownExpire
  \/ CTick

SpecCtrl == CInit /\ [][CNext]_vars

Absent(b) == b = Null \/ b = Undefined

\* C4: a change event delivered for the menu list, or a leading one for the
\* item list or the cart region, leaves budget recomputed from the current
\* budget lookup and the price filter run with it.
C4_RegionChangeRefilters ==
  (cLast.ev \in {"menu", "itemList", "cart"} /\ cLast.leading) =>
    /\ fLast.op = "filter"
    /\ fLast.maxPrice = budget
    /\ budget = BudgetLookup(enabled, cartBudget, href)

\* C6 (I3): with the controller at rest, enabled = false implies budget is
\* absent.
C6_DisabledMeansNoBudget == ~enabled => Absent(budget)


\* --------------------------------------------- Utils.urlWatcher, on its own
notU == <<wvars, tvars, dvars, fvars>>
cRest == <<enabled, budget, ui, domControls, cartOk, cartBudget, cLast>>

\* the observer on document.body is notified of a batch of mutations
Mutation ==
  /\ Len(urlLog) + Len(UrlCallbacks(href, previousUrl)) <= MaxCalls
  /\ previousUrl' = UrlStored(href, previousUrl)
  /\ urlLog' = urlLog \o UrlCallbacks(href, previousUrl)
  /\ uLast' = [op |-> "mutation", before |-> Len(urlLog),
               prevBefore |-> previousUrl]
  /\ UNCHANGED <<href, cRest, notU>>

\* the page changes its location without a mutation being delivered yet
SetLocation(u) ==
  /\ u # href
  /\ href' = u
  /\ uLast' = [op |-> "location", before |-> Len(urlLog),
               prevBefore |-> previousUrl]
  /\ UNCHANGED <<previousUrl, urlLog, cRest, notU>>

UInit ==
  /\ UIdle
  /\ CIdle
  /\ WIdle
  /\ TIdle
  /\ DIdle
  /\ FIdle

UNext ==
  \/ Mutation
  \/ \E u \in Urls : SetLocation(u)

SpecUrl == UInit /\ [][UNext]_vars

\* C11: the stored URL starts empty; a mutation notification invokes the
\* callback exactly when the location differs from the stored URL, with the
\* new location and the previously stored URL, the stored URL being the new
\* location already; nothing else invokes it, and the stored URL is always
\* the location last reported
C11_CallbackIffUrlDiffers ==
  /\ uLast.op = "mutation" =>
       IF href # uLast.prevBefore
         THEN /\ Len(urlLog) = uLast.before + 1
              /\ urlLog[Len(urlLog)] =
                   [url |-> href, prev |-> uLast.prevBefore, stored |-> href]
         ELSE Len(urlLog) = uLast.before
  /\ uLast.op # "mutation" => Len(urlLog) = uLast.before
  /\ previousUrl =
       IF urlLog = <<>> THEN EmptyUrl ELSE urlLog[Len(urlLog)].url

\* a second change of location has been reported after the first report
C11_Witness ==
  /\ uLast.op = "mutation"
  /\ Len(urlLog) = 2
  /\ urlLog[2].prev = urlLog[1].url
  /\ urlLog[1].prev = EmptyUrl


\* ------------------------------------------------- the controller's toggle
\* the controller's control as it is rendered in the tree
Rendered == {c \in domControls : ui.made /\ c.id = ui.rendered}

\* C12: right after a change of the toggle control the budget is the one
\* the lookup gives for the new enabled (absent when disabled), the rendered
\* label is the label of that budget and the filter has run with that
\* budget, whatever the state of the leading-debounce cooldowns
C12_ToggleRecomputes ==
  cLast.ev = "toggle" =>
    /\ budget = BudgetLookup(enabled, cartBudget, href)
    /\ \A c \in Rendered : c.label = LabelText(budget)
    /\ fLast.op = "filter"
    /\ fLast.maxPrice = budget


\* C13: a menu event ("init" or "added") leaves enabled and budget as they
\* were and leaves exactly one control in the tree, the newly attached one;
\* at every moment at most one control of the controller is in the tree,
\* and its checked state is the controller's enabled
C13_OneControlFollowsEnabled ==
  /\ [](/\ Cardinality(domControls) <= 1
        /\ \A c \in domControls : c.checked = enabled)
  /\ [][cLast'.ev = "menu" =>
          /\ enabled' = enabled
          /\ budget' = budget
          /\ Cardinality(domControls') = 1
          /\ Rendered' = domControls']_vars

\* the menu region was re-inserted after a cart change set a budget: the
\* new control is checked and carries the budget's label
C13_Witness ==
  /\ cLast.ev = "menu"
  /\ enabled
  /\ budget \in 1..MaxBudget
  /\ \E c \in Rendered : c.checked /\ c.label = LabelText(budget)


\* C18: the rendered control's label is the label of the cached budget, with
\* the " (... available)" suffix exactly when the budget is present; right
\* after a toggle to enabled whose lookup returns a budget the label carries
\* that budget, and right after a toggle to disabled the label is exactly
\* "Filter by budget"
C18_LabelFollowsBudget ==
  \A c \in Rendered :
    /\ c.label = LabelText(budget)
    /\ (Len(c.label) > 1) <=> ~Absent(budget)
    /\ (cLast.ev = "toggle" /\ enabled /\ cartOk
          /\ ~Absent(BudgetLookup(TRUE, cartBudget, href))) =>
         c.label = LabelText(BudgetLookup(TRUE, cartBudget, href))
    /\ (cLast.ev = "toggle" /\ ~enabled) => c.label = <<"Filter by budget">>


\* ------------------------------------- the cart watcher alone: cart bursts
\* the controller with nothing but well-formed cart changes and time passing
BurstNext ==
  \/ \E c \in {x \in Carts : x.ok} : CartEvent(c.ok, c.cb)
  \/ CooldownExpire
  \/ CTick

SpecCartBurst == CInit /\ [][BurstNext]_vars

\* the cart region differs from the empty one the page started with, so at
\* least one cart change was delivered
CartChanged == cartBudget # [k \in UrlKeys |-> Undefined]

\* C19: once the cooldown after the last cart change is over, the cached
\* budget is the one the lookup gives on the cart as it is now, and the
\* displays of items and containers are those a filter pass with that
\* budget leaves
C19_BurstEndsConsistent ==
  (CartChanged /\ timers = {}) =>
    LET b == BudgetLookup(enabled, cartBudget, href) IN
      /\ budget = b
      /\ display = FilterItems(b)
      /\ boxDisplay = FilterBoxes(FilterItems(b))


\* C20: right after the URL watcher has reported a change of location the
\* filter has run, and the budget is that of the cart entry of the new
\* location's key (absent when disabled or when there is no such entry)
C20_NavigationRefilters ==
  cLast.ev = "nav" =>
    /\ fLast.op = "filter"
    /\ budget = BudgetLookup(enabled, cartBudget, href)

====
